---------------------------- MODULE Spec2Model ----------------------------
(***************************************************************************)
(* Model of the md2wxml Markdown parser component.                         *)
(*                                                                         *)
(* Two revisions of the component exist in the repository:                 *)
(*   "new" : src/md-render.js        (rule-table based, unified parseList) *)
(*   "old" : src/unnamed/part_000    (parseUnorderedList/parseOrderedList) *)
(*                                                                         *)
(* A JavaScript string is modelled as a sequence of one-character strings, *)
(* array indices are 1-based (JS index k is k+1 here).                     *)
(***************************************************************************)
EXTENDS Integers, Sequences, FiniteSets, TLC

VARIABLES rev, text, lines, i, nodes, steps, pc,
          remaining, tokens, children, prevLen

vars == <<rev, text, lines, i, nodes, steps, pc,
          remaining, tokens, children, prevLen>>

(***************************************************************************)
(* Bounds of the model.                                                    *)
(***************************************************************************)
MaxLines == 4
MaxFrags == 4
MaxSteps == 6
MaxListLines == 6

(***************************************************************************)
(* String primitives (methods of String.prototype)                         *)
(***************************************************************************)
Take(s, n) == SubSeq(s, 1, n)

Drop(s, n) == SubSeq(s, n + 1, Len(s))

StartsWith(s, p) == Len(s) >= Len(p) /\ Take(s, Len(p)) = p

\* a UTF-16 unit outside printable ASCII is written by its code point
\* JS WhiteSpace + LineTerminator, the 25 units trim() strips and \s matches:
\* U+0009..U+000D, U+0020, U+00A0, U+1680, U+2000..U+200A, U+2028, U+2029,
\* U+202F, U+205F, U+3000, U+FEFF
Spaces ==
  { "\t", "\n", "U+000B", "\f", "\r", " ", "U+00A0", "U+1680",
    "U+2000", "U+2001", "U+2002", "U+2003", "U+2004", "U+2005", "U+2006",
    "U+2007", "U+2008", "U+2009", "U+200A",
    "U+2028", "U+2029", "U+202F", "U+205F", "U+3000", "U+FEFF" }

IsSpace(c) == c \in Spaces

\* JS LineTerminator: the units the regex atom "." does not match
LineTerminators == {"\n", "\r", "U+2028", "U+2029"}

IsLineTerminator(c) == c \in LineTerminators

Digits == {"0", "1", "2", "3", "4", "5", "6", "7", "8", "9"}

\* length of the longest prefix of s whose characters are all in cs
RECURSIVE SpanIn(_, _)
SpanIn(s, cs) ==
  IF s = <<>> \/ Head(s) \notin cs THEN 0 ELSE 1 + SpanIn(Tail(s), cs)

\* length of the longest prefix of s with no character in cs
RECURSIVE SpanNotIn(_, _)
SpanNotIn(s, cs) ==
  IF s = <<>> \/ Head(s) \in cs THEN 0 ELSE 1 + SpanNotIn(Tail(s), cs)

RECURSIVE TrimEnd(_)
TrimEnd(s) ==
  IF s = <<>> \/ ~IsSpace(s[Len(s)]) THEN s ELSE TrimEnd(Take(s, Len(s) - 1))

Trim(s) == TrimEnd(Drop(s, SpanIn(s, Spaces)))

\* text.split('\n')
RECURSIVE SplitFrom(_, _)
SplitFrom(s, cur) ==
  IF s = <<>> THEN <<cur>>
  ELSE IF Head(s) = "\n" THEN <<cur>> \o SplitFrom(Tail(s), <<>>)
  ELSE SplitFrom(Tail(s), Append(cur, Head(s)))

Split(s) == SplitFrom(s, <<>>)

\* array.join('\n')
RECURSIVE Join(_)
Join(ls) ==
  IF ls = <<>> THEN <<>>
  ELSE IF Len(ls) = 1 THEN ls[1]
  ELSE ls[1] \o <<"\n">> \o Join(Tail(ls))

\* index (1-based) of the first character of s in set cs, 0 if none
RECURSIVE IndexOfAny(_, _)
IndexOfAny(s, cs) ==
  IF s = <<>> THEN 0
  ELSE IF Head(s) \in cs THEN 1
  ELSE LET r == IndexOfAny(Tail(s), cs) IN IF r = 0 THEN 0 ELSE r + 1

(***************************************************************************)
(* Regular expressions.  A match result is                                 *)
(*   [matched |-> BOOLEAN, len |-> length of match[0], g1, g2 |-> groups]  *)
(***************************************************************************)
NoMatch == [matched |-> FALSE, len |-> 0, g1 |-> <<>>, g2 |-> <<>>]

Matched(n, a, b) == [matched |-> TRUE, len |-> n, g1 |-> a, g2 |-> b]

\* the tail  \s+(.+)$  shared by ordered, unordered and heading; `pre` is
\* what the pattern's head matched, s the rest of the subject
RestOfLine(pre, s) ==
  LET ws   == SpanIn(s, Spaces)
      rest == Drop(s, ws)
  IN  IF ws = 0 THEN NoMatch
      ELSE IF rest # <<>>
        THEN IF SpanNotIn(rest, LineTerminators) = Len(rest)
               THEN Matched(Len(pre) + Len(s), pre, rest)
               ELSE NoMatch
        \* subject ends in white space: \s+ gives one character back to .+
        ELSE IF ws >= 2 /\ ~IsLineTerminator(s[ws])
               THEN Matched(Len(pre) + Len(s), pre, <<s[ws]>>)
               ELSE NoMatch

\* PATTERNS.ordered  /^\d+\.\s+(.+)$/   (g2 is the item text, match[1])
MatchOrdered(s) ==
  LET d == SpanIn(s, Digits)
  IN  IF d = 0 \/ Len(s) <= d \/ s[d + 1] # "." THEN NoMatch
      ELSE RestOfLine(Take(s, d + 1), Drop(s, d + 1))

\* PATTERNS.unordered  /^[-*+]\s+(.+)$/   (g2 is the item text, match[1])
MatchUnordered(s) ==
  IF s = <<>> \/ s[1] \notin {"-", "*", "+"} THEN NoMatch
  ELSE RestOfLine(Take(s, 1), Drop(s, 1))

\* PATTERNS.heading  /^(#{1,6})\s+(.+)$/   (g1 the hashes, g2 the text)
MatchHeading(s) ==
  LET h == SpanIn(s, {"#"})
  IN  IF h = 0 \/ h > 6 THEN NoMatch
      ELSE RestOfLine(Take(s, h), Drop(s, h))

\* PATTERNS.hr  /^(-{3,}|\*{3,}|_{3,})$/
TestHr(s) ==
  /\ Len(s) >= 3
  /\ s[1] \in {"-", "*", "_"}
  /\ \A k \in 1..Len(s) : s[k] = s[1]

\* the character U+0060 (a TLA+ string literal cannot hold it)
Backtick == "BACKTICK"

Fence == <<Backtick, Backtick, Backtick>>

\* PATTERNS.codeBlockStart  /^```/
TestCodeBlockStart(s) == StartsWith(s, Fence)

\* the dispatch tests of the old revision:  /^[-*+]\s+/  and  /^\d+\.\s+/
TestUnorderedMarker(s) ==
  /\ Len(s) >= 2
  /\ s[1] \in {"-", "*", "+"}
  /\ IsSpace(s[2])

TestOrderedMarker(s) ==
  LET d == SpanIn(s, Digits)
  IN  /\ d > 0
      /\ Len(s) >= d + 2
      /\ s[d + 1] = "."
      /\ IsSpace(s[d + 2])

(***************************************************************************)
(* Inline tokenizer: the six anchored rules of parseInline.                *)
(***************************************************************************)
\* /^!\[([^\]]*)\]\(([^)]+)\)/     g1 = alt, g2 = src
MatchImage(s) ==
  IF ~StartsWith(s, <<"!", "[">>) THEN NoMatch
  ELSE LET after == Drop(s, 2)
           a     == IndexOfAny(after, {"]"})
       IN  IF a = 0 \/ Len(after) <= a \/ after[a + 1] # "(" THEN NoMatch
           ELSE LET url == Drop(after, a + 1)
                    b   == IndexOfAny(url, {")"})
                IN  IF b < 2 THEN NoMatch
                    ELSE Matched(2 + a + 1 + b, Take(after, a - 1), Take(url, b - 1))

\* /^\[([^\]]+)\]\(([^)]+)\)/      g1 = text, g2 = href
MatchLink(s) ==
  IF ~StartsWith(s, <<"[">>) THEN NoMatch
  ELSE LET after == Drop(s, 1)
           a     == IndexOfAny(after, {"]"})
       IN  IF a < 2 \/ Len(after) <= a \/ after[a + 1] # "(" THEN NoMatch
           ELSE LET url == Drop(after, a + 1)
                    b   == IndexOfAny(url, {")"})
                IN  IF b < 2 THEN NoMatch
                    ELSE Matched(1 + a + 1 + b, Take(after, a - 1), Take(url, b - 1))

\* /^`([^`]+)`/                    g1 = content
MatchCode(s) ==
  IF ~StartsWith(s, <<Backtick>>) THEN NoMatch
  ELSE LET after == Drop(s, 1)
           a     == IndexOfAny(after, {Backtick})
       IN  IF a < 2 THEN NoMatch
           ELSE Matched(1 + a, Take(after, a - 1), <<>>)

\* /^(\*\*|__)([^*_]+)\1/          g1 = delimiter, g2 = content
MatchBold(s) ==
  IF ~(StartsWith(s, <<"*", "*">>) \/ StartsWith(s, <<"_", "_">>)) THEN NoMatch
  ELSE LET after == Drop(s, 2)
           a     == IndexOfAny(after, {"*", "_"})
       IN  IF a < 2 \/ ~StartsWith(Drop(after, a - 1), Take(s, 2)) THEN NoMatch
           ELSE Matched(2 + (a - 1) + 2, Take(s, 2), Take(after, a - 1))

\* /^(\*|_)([^*_]+)\1/             g1 = delimiter, g2 = content
MatchItalic(s) ==
  IF ~(StartsWith(s, <<"*">>) \/ StartsWith(s, <<"_">>)) THEN NoMatch
  ELSE LET after == Drop(s, 1)
           a     == IndexOfAny(after, {"*", "_"})
       IN  IF a < 2 \/ after[a] # s[1] THEN NoMatch
           ELSE Matched(1 + a, Take(s, 1), Take(after, a - 1))

\* /^~~([^~]+)~~/                  g1 = content
MatchStrike(s) ==
  IF ~StartsWith(s, <<"~", "~">>) THEN NoMatch
  ELSE LET after == Drop(s, 2)
           a     == IndexOfAny(after, {"~"})
       IN  IF a < 2 \/ ~StartsWith(Drop(after, a - 1), <<"~", "~">>) THEN NoMatch
           ELSE Matched(2 + (a - 1) + 2, Take(after, a - 1), <<>>)

TextNode(c) == [type |-> "text", content |-> c]

\* the priority-ordered rule table of the new revision
rules == <<"image", "link", "code", "bold", "italic", "strike">>

pattern(rule, s) ==
  CASE rule = "image"  -> MatchImage(s)
    [] rule = "link"   -> MatchLink(s)
    [] rule = "code"   -> MatchCode(s)
    [] rule = "bold"   -> MatchBold(s)
    [] rule = "italic" -> MatchItalic(s)
    [] rule = "strike" -> MatchStrike(s)

handler(rule, m) ==
  CASE rule = "image"  -> [type |-> "image", alt |-> m.g1, src |-> m.g2]
    [] rule = "link"   -> [type |-> "link", text |-> m.g1, href |-> m.g2]
    [] rule = "code"   -> [type |-> "code", content |-> m.g1]
    [] rule = "bold"   -> [type |-> "bold", content |-> m.g2]
    [] rule = "italic" -> [type |-> "italic", content |-> m.g2]
    [] rule = "strike" -> [type |-> "strike", content |-> m.g1]

\* the characters of /[`*_~!\[]/
Specials == {Backtick, "*", "_", "~", "!", "["}

\* FallbackLen without the  nextSpecial === 0 ? 1  case
FallbackLenNoProgress(s) ==
  LET nextSpecial == IndexOfAny(s, Specials)
  IN  IF nextSpecial = 0 THEN Len(s) ELSE nextSpecial - 1

\* the plain-text fallback: how many characters become one text token
FallbackLen(s) ==
  LET nextSpecial == IndexOfAny(s, Specials)
  IN  IF nextSpecial = 0 THEN Len(s)
      ELSE IF nextSpecial = 1 THEN 1
      ELSE nextSpecial - 1

TextToken(s, len) == [token |-> TextNode(Take(s, len)), len |-> len]

Fallback(s) == TextToken(s, FallbackLen(s))

\* Emit slicing one character too few
EmitShort(rule, match) ==
  [token |-> handler(rule, match), len |-> match.len - 1]

\* a rule matched: push handler(match), slice match[0].length
Emit(rule, match) == [token |-> handler(rule, match), len |-> match.len]

\* new revision: for (const {pattern, handler} of rules), first match wins
RECURSIVE FirstRule(_, _)
FirstRule(s, k) ==
  IF k > Len(rules) THEN Fallback(s)
  ELSE IF pattern(rules[k], s).matched
    THEN Emit(rules[k], pattern(rules[k], s))
    ELSE FirstRule(s, k + 1)

\* old revision: the same six tests as a cascade of if / continue
CascadeOld(s) ==
  IF MatchImage(s).matched THEN Emit("image", MatchImage(s))
  ELSE IF MatchLink(s).matched THEN Emit("link", MatchLink(s))
  ELSE IF MatchCode(s).matched THEN Emit("code", MatchCode(s))
  ELSE IF MatchBold(s).matched THEN Emit("bold", MatchBold(s))
  ELSE IF MatchItalic(s).matched THEN Emit("italic", MatchItalic(s))
  ELSE IF MatchStrike(s).matched THEN Emit("strike", MatchStrike(s))
  ELSE Fallback(s)

\* one iteration of  while (remaining.length > 0)  : the token pushed and
\* the number of characters sliced off remaining
InlineIteration(r, s) ==
  IF r = "new" THEN FirstRule(s, 1) ELSE CascadeOld(s)

\* MergeInto that pushes every token
MergeIntoNoMerge(acc, toks) == acc \o toks

\* the merge of adjacent text nodes (reduce / for-of over tokens)
RECURSIVE MergeInto(_, _)
MergeInto(acc, toks) ==
  IF toks = <<>> THEN acc
  ELSE LET token == Head(toks)
           n     == Len(acc)
       IN  IF token.type = "text" /\ n > 0 /\ acc[n].type = "text"
             THEN MergeInto([acc EXCEPT ![n].content = @ \o token.content],
                            Tail(toks))
             ELSE MergeInto(Append(acc, token), Tail(toks))

\* the tokens array after the merge: the merge pushes the token objects
\* themselves, so  last.content += token.content  also changes the element
\* of tokens that opened the run; `last` is the index in toks of the last
\* element of the merged array, 0 while it is empty
RECURSIVE MergeAliased(_, _, _)
MergeAliased(toks, k, last) ==
  IF k > Len(toks) THEN toks
  ELSE IF toks[k].type = "text" /\ last > 0 /\ toks[last].type = "text"
    THEN MergeAliased([toks EXCEPT ![last].content = @ \o toks[k].content],
                      k + 1, last)
    ELSE MergeAliased(toks, k + 1, k)

OrEmptyText(r, merged) ==
  IF r = "old" /\ merged = <<>> THEN <<TextNode(<<>>)>> ELSE merged

MergeText(r, toks) == OrEmptyText(r, MergeInto(<<>>, toks))

RECURSIVE Tokenize(_, _, _)
Tokenize(r, s, toks) ==
  IF s = <<>> THEN toks
  ELSE Tokenize(r, Drop(s, InlineIteration(r, s).len),
                Append(toks, InlineIteration(r, s).token))

\* parseInline without the early return on an empty text
parseInlineNoEarlyReturn(r, t) == MergeText(r, Tokenize(r, t, <<>>))

\* parseInline as a function of its argument
parseInline(r, t) ==
  IF t = <<>> THEN <<TextNode(<<>>)>>
  ELSE MergeText(r, Tokenize(r, t, <<>>))

(***************************************************************************)
(* Block scanner.  A sub-parser returns [node, nextIndex].                 *)
(***************************************************************************)
\* JS null
Null == [type |-> "null"]

\* new revision: parseCodeBlock, the while loop collecting raw lines
RECURSIVE CodeLoop(_, _, _)
CodeLoop(ls, k, codeLines) ==
  IF k <= Len(ls) /\ ~TestCodeBlockStart(Trim(ls[k]))
    THEN CodeLoop(ls, k + 1, Append(codeLines, ls[k]))
    ELSE [codeLines |-> codeLines, i |-> k]

\* CodeBlockResult over trimmed code lines
CodeBlockResultTrimmed(language, loop) ==
  [node |-> [type |-> "codeblock", language |-> language,
             content |-> Join([k \in 1..Len(loop.codeLines) |->
                                 Trim(loop.codeLines[k])])],
   nextIndex |-> loop.i + 1]

CodeBlockResult(language, loop) ==
  [node |-> [type |-> "codeblock", language |-> language,
             content |-> Join(loop.codeLines)],
   nextIndex |-> loop.i + 1]

parseCodeBlock(ls, startIndex) ==
  CodeBlockResult(Trim(Drop(Trim(ls[startIndex]), 3)),
                  CodeLoop(ls, startIndex + 1, <<>>))

\* new revision: parseBlockquote, the while loop collecting quote lines
RECURSIVE QuoteLoop(_, _, _)
QuoteLoop(ls, k, quoteLines) ==
  IF k > Len(ls) THEN [quoteLines |-> quoteLines, i |-> k]
  ELSE LET line == Trim(ls[k])
       IN  IF StartsWith(line, <<">">>)
             THEN QuoteLoop(ls, k + 1, Append(quoteLines, Trim(Drop(line, 1))))
           ELSE IF line = <<>> /\ k + 1 <= Len(ls)
                   /\ StartsWith(Trim(ls[k + 1]), <<">">>)
             THEN QuoteLoop(ls, k + 1, Append(quoteLines, <<>>))
           ELSE [quoteLines |-> quoteLines, i |-> k]

BlockquoteResult(r, loop) ==
  [node |-> [type |-> "blockquote",
             children |-> parseInline(r, Join(loop.quoteLines))],
   nextIndex |-> loop.i]

parseBlockquote(ls, startIndex) ==
  BlockquoteResult("new", QuoteLoop(ls, startIndex, <<>>))

\* a PATTERNS entry applied to a line
MatchPattern(p, line) ==
  IF p = "ordered" THEN MatchOrdered(line) ELSE MatchUnordered(line)

\* peekNextNonEmpty looking at lines[index] in place of lines[index + 1]
peekThisLine(ls, index, patterns) ==
  \E p \in patterns : MatchPattern(p, Trim(ls[index])).matched

\* peekNextNonEmpty(lines, index, ...patterns)
peekNextNonEmpty(ls, index, patterns) ==
  IF index + 1 > Len(ls) THEN FALSE
  ELSE LET nextLine == Trim(ls[index + 1])
       IN  \E p \in patterns : MatchPattern(p, nextLine).matched

ListItem(r, match) ==
  [type |-> "listitem", children |-> parseInline(r, match.g2)]

\* parseList: the inner while loop collecting the nested items of one item
RECURSIVE NestedLoop(_, _, _, _, _)
NestedLoop(ls, k, nestedItems, nestedPattern, mainPattern) ==
  IF k > Len(ls) THEN [nestedItems |-> nestedItems, i |-> k]
  ELSE IF MatchPattern(nestedPattern, Trim(ls[k])).matched
    THEN NestedLoop(ls, k + 1,
           Append(nestedItems,
                  ListItem("new", MatchPattern(nestedPattern, Trim(ls[k])))),
           nestedPattern, mainPattern)
  ELSE IF Trim(ls[k]) = <<>>
          /\ peekNextNonEmpty(ls, k, {nestedPattern, mainPattern})
    THEN NestedLoop(ls, k + 1, nestedItems, nestedPattern, mainPattern)
  ELSE [nestedItems |-> nestedItems, i |-> k]

\* TopItem whose nested list takes the parent's ordered flag
TopItemSameOrder(match, nestedItems, isOrdered) ==
  [type |-> "listitem",
   children |-> parseInline("new", match.g2),
   nestedList |->
     IF Len(nestedItems) > 0
       THEN [type |-> "list", ordered |-> isOrdered, items |-> nestedItems]
       ELSE Null]

\* the item pushed for a main-pattern match, given its nested items
TopItem(match, nestedItems, isOrdered) ==
  [type |-> "listitem",
   children |-> parseInline("new", match.g2),
   nestedList |->
     IF Len(nestedItems) > 0
       THEN [type |-> "list", ordered |-> ~isOrdered, items |-> nestedItems]
       ELSE Null]

MainPatternOf(isOrdered) == IF isOrdered THEN "ordered" ELSE "unordered"

NestedPatternOf(isOrdered) == IF isOrdered THEN "unordered" ELSE "ordered"

\* parseList: the outer while loop collecting the items
RECURSIVE ListLoop(_, _, _, _)
RECURSIVE ListItemStep(_, _, _, _, _)
ListLoop(ls, k, items, isOrdered) ==
  IF k > Len(ls) THEN [items |-> items, i |-> k]
  ELSE IF MatchPattern(MainPatternOf(isOrdered), Trim(ls[k])).matched
    THEN ListItemStep(ls, items, isOrdered,
           MatchPattern(MainPatternOf(isOrdered), Trim(ls[k])),
           NestedLoop(ls, k + 1, <<>>, NestedPatternOf(isOrdered),
                      MainPatternOf(isOrdered)))
  ELSE IF Trim(ls[k]) = <<>>
          /\ peekNextNonEmpty(ls, k, {MainPatternOf(isOrdered)})
    THEN ListLoop(ls, k + 1, items, isOrdered)
  ELSE [items |-> items, i |-> k]

\* the body of  if (match)  : push the item, continue after its nested run
ListItemStep(ls, items, isOrdered, match, nested) ==
  ListLoop(ls, nested.i,
           Append(items, TopItem(match, nested.nestedItems, isOrdered)),
           isOrdered)

ListResult(isOrdered, loop) ==
  [node |-> [type |-> "list", ordered |-> isOrdered, items |-> loop.items],
   nextIndex |-> loop.i]

ParseListFrom(ls, startIndex, isOrdered) ==
  ListResult(isOrdered, ListLoop(ls, startIndex, <<>>, isOrdered))

parseList(ls, startIndex) ==
  ParseListFrom(ls, startIndex, MatchOrdered(Trim(ls[startIndex])).matched)

HeadingResult(r, headingMatch, index) ==
  [node |-> [type |-> "heading", level |-> Len(headingMatch.g1),
             children |-> parseInline(r, headingMatch.g2)],
   nextIndex |-> index + 1]

ParagraphResult(r, line, index) ==
  [node |-> [type |-> "paragraph", children |-> parseInline(r, line)],
   nextIndex |-> index + 1]

\* the list dispatch done with the marker prefixes only
TestListLinePrefix(line) == TestOrderedMarker(line) \/ TestUnorderedMarker(line)

\* PATTERNS.ordered.test(line) || PATTERNS.unordered.test(line)
TestListLine(line) == MatchOrdered(line).matched \/ MatchUnordered(line).matched

\* parseLine after  const line = lines[index].trim()
ClassifyLine(ls, index, line) ==
  IF line = <<>> THEN [node |-> Null, nextIndex |-> index + 1]
  ELSE IF TestCodeBlockStart(line) THEN parseCodeBlock(ls, index)
  ELSE IF MatchHeading(line).matched
    THEN HeadingResult("new", MatchHeading(line), index)
  ELSE IF TestHr(line)
    THEN [node |-> [type |-> "hr"], nextIndex |-> index + 1]
  ELSE IF StartsWith(line, <<">">>) THEN parseBlockquote(ls, index)
  ELSE IF TestListLine(line) THEN parseList(ls, index)
  ELSE ParagraphResult("new", line, index)

\* parseLine classifying the line as it is, not trimmed
parseLineUntrimmed(ls, index) == ClassifyLine(ls, index, ls[index])

\* new revision: parseLine(lines, index)
parseLine(ls, index) == ClassifyLine(ls, index, Trim(ls[index]))

(***************************************************************************)
(* Block scanner of the old revision.                                      *)
(***************************************************************************)
RECURSIVE CodeLoopOld(_, _, _)
CodeLoopOld(ls, k, codeLines) ==
  IF k > Len(ls) THEN [codeLines |-> codeLines, i |-> k]
  ELSE IF StartsWith(Trim(ls[k]), Fence) THEN [codeLines |-> codeLines, i |-> k]
  ELSE CodeLoopOld(ls, k + 1, Append(codeLines, ls[k]))

parseCodeBlockOld(ls, startIndex) ==
  CodeBlockResult(Trim(Drop(Trim(ls[startIndex]), 3)),
                  CodeLoopOld(ls, startIndex + 1, <<>>))

RECURSIVE QuoteLoopOld(_, _, _)
QuoteLoopOld(ls, k, quoteLines) ==
  IF k > Len(ls) THEN [quoteLines |-> quoteLines, i |-> k]
  ELSE LET line == Trim(ls[k])
       IN  IF StartsWith(line, <<">">>)
             THEN QuoteLoopOld(ls, k + 1, Append(quoteLines, Trim(Drop(line, 1))))
           ELSE IF line = <<>>
             THEN IF k + 1 <= Len(ls) /\ StartsWith(Trim(ls[k + 1]), <<">">>)
                    THEN QuoteLoopOld(ls, k + 1, Append(quoteLines, <<>>))
                    ELSE [quoteLines |-> quoteLines, i |-> k]
           ELSE [quoteLines |-> quoteLines, i |-> k]

parseBlockquoteOld(ls, startIndex) ==
  BlockquoteResult("old", QuoteLoopOld(ls, startIndex, <<>>))

RECURSIVE UnorderedLoop(_, _, _)
UnorderedLoop(ls, k, items) ==
  IF k > Len(ls) THEN [items |-> items, i |-> k]
  ELSE IF MatchUnordered(Trim(ls[k])).matched
    THEN UnorderedLoop(ls, k + 1,
           Append(items, ListItem("old", MatchUnordered(Trim(ls[k])))))
  ELSE IF Trim(ls[k]) = <<>>
    THEN IF k + 1 <= Len(ls) /\ TestUnorderedMarker(Trim(ls[k + 1]))
           THEN UnorderedLoop(ls, k + 1, items)
           ELSE [items |-> items, i |-> k]
  ELSE [items |-> items, i |-> k]

parseUnorderedList(ls, startIndex) ==
  ListResult(FALSE, UnorderedLoop(ls, startIndex, <<>>))

RECURSIVE OrderedLoop(_, _, _)
OrderedLoop(ls, k, items) ==
  IF k > Len(ls) THEN [items |-> items, i |-> k]
  ELSE IF MatchOrdered(Trim(ls[k])).matched
    THEN OrderedLoop(ls, k + 1,
           Append(items, ListItem("old", MatchOrdered(Trim(ls[k])))))
  ELSE IF Trim(ls[k]) = <<>>
    THEN IF k + 1 <= Len(ls) /\ TestOrderedMarker(Trim(ls[k + 1]))
           THEN OrderedLoop(ls, k + 1, items)
           ELSE [items |-> items, i |-> k]
  ELSE [items |-> items, i |-> k]

parseOrderedList(ls, startIndex) ==
  ListResult(TRUE, OrderedLoop(ls, startIndex, <<>>))

\* parseLine after  const trimmedLine = line.trim()
ClassifyLineOld(ls, index, trimmedLine) ==
  IF trimmedLine = <<>> THEN [node |-> Null, nextIndex |-> index + 1]
  ELSE IF StartsWith(trimmedLine, Fence) THEN parseCodeBlockOld(ls, index)
  ELSE IF MatchHeading(trimmedLine).matched
    THEN HeadingResult("old", MatchHeading(trimmedLine), index)
  ELSE IF TestHr(trimmedLine)
    THEN [node |-> [type |-> "hr"], nextIndex |-> index + 1]
  ELSE IF StartsWith(trimmedLine, <<">">>) THEN parseBlockquoteOld(ls, index)
  ELSE IF TestUnorderedMarker(trimmedLine) THEN parseUnorderedList(ls, index)
  ELSE IF TestOrderedMarker(trimmedLine) THEN parseOrderedList(ls, index)
  ELSE ParagraphResult("old", trimmedLine, index)

\* old revision: parseLine(line, lines, index)
parseLineOld(ls, index) == ClassifyLineOld(ls, index, Trim(ls[index]))

(***************************************************************************)
(* Inputs.                                                                 *)
(***************************************************************************)
\* pieces the inline inputs are built from: every delimiter of the six
\* rules, alone and paired, and a plain character
Fragments ==
  { <<"a">>, <<"*">>, <<"*", "*">>, <<"_">>, <<"_", "_">>, <<"~", "~">>,
    <<Backtick>>, <<"!", "[">>, <<"[">>, <<"]", "(">>, <<")">>,
    <<"]", "(", "a", ")">> }

RECURSIVE FragStrings(_)
FragStrings(n) ==
  IF n = 0 THEN {<<>>}
  ELSE LET prev == FragStrings(n - 1)
       IN  prev \cup {p \o f : p \in prev, f \in Fragments}

InlineInputs == FragStrings(MaxFrags)

\* the lines the documents are built from
LineSet ==
  { <<>>,                                   \* blank
    <<" ", "U+00A0">>,                      \* white space only
    <<"-", " ", "a">>,                      \* unordered item
    <<" ", "1", ".", "U+3000", "x">>,       \* ordered item, indented
    <<"U+FEFF", "*", "a", "\f">>,           \* paragraph, unpaired delimiter
    <<">">>,                                \* quote marker alone
    <<Backtick, Backtick, Backtick>>,       \* fence
    <<"-", " ", "a", "\r", "b">>,           \* marker, then a line terminator
    <<"-", "\f", "a", "U+2028", "b">>,      \* the same with U+000C and U+2028
    <<"#", " ", "H">> }                     \* heading

RECURSIVE LineSeqs(_)
LineSeqs(n) ==
  IF n = 0 THEN {<<>>}
  ELSE LET prev == LineSeqs(n - 1)
       IN  prev \cup {Append(p, l) : p \in prev, l \in LineSet}

\* the lines the longer documents are built from: a blank line, a list
\* item, a horizontal rule and a fence
ListLineSet ==
  { <<>>,
    <<"-", " ", "a">>,
    <<"-", "-", "-">>,
    <<Backtick, Backtick, Backtick>> }

RECURSIVE ListLineSeqs(_)
ListLineSeqs(n) ==
  IF n = 0 THEN {<<>>}
  ELSE LET prev == ListLineSeqs(n - 1)
       IN  prev \cup {Append(p, l) : p \in prev, l \in ListLineSet}

\* the texts given to parseMarkdown: every document of up to MaxLines lines
\* of LineSet, and every document of up to MaxListLines lines of ListLineSet
Documents ==
  {Join(ls) : ls \in LineSeqs(MaxLines)}
  \cup {Join(ls) : ls \in ListLineSeqs(MaxListLines)}

(***************************************************************************)
(* The component as a state machine.                                       *)
(*   pc = "start"    parseMarkdown about to run on `text`                  *)
(*   pc = "scan"     inside  while (i < lines.length)                      *)
(*   pc = "done"     parseMarkdown returned `nodes`                        *)
(*   pc = "threw"    a TypeError propagated                                *)
(*   pc = "call"     parseInline about to run on `text`                    *)
(*   pc = "loop"     inside  while (remaining.length > 0)                  *)
(*   pc = "returned" parseInline returned `children`                       *)
(* steps records every parseLine call: [index, nextIndex, node].           *)
(***************************************************************************)
Idle ==
  /\ lines = <<>> /\ i = 0 /\ nodes = <<>> /\ steps = <<>>
  /\ remaining = <<>> /\ tokens = <<>> /\ children = <<>> /\ prevLen = 0

Init ==
  /\ rev = "new"
  /\ text \in Documents
  /\ pc = "start"
  /\ Idle

InitRevisions ==
  /\ rev \in {"new", "old"}
  /\ text \in Documents
  /\ pc = "start"
  /\ Idle

InitInline ==
  /\ rev \in {"new", "old"}
  /\ text \in InlineInputs
  /\ pc = "call"
  /\ Idle

inlineVars == <<remaining, tokens, children, prevLen>>

blockVars == <<lines, i, nodes, steps>>

\* parseMarkdown up to the loop: split the text (the old revision returns
\* at once on an empty text)
ParseMarkdownEnter ==
  /\ pc = "start"
  /\ IF rev = "old" /\ text = <<>>
       THEN /\ pc' = "done"
            /\ UNCHANGED <<lines, i>>
       ELSE /\ lines' = Split(text)
            /\ i' = 1
            /\ pc' = "scan"
  /\ nodes' = <<>>
  /\ UNCHANGED <<rev, text, steps, inlineVars>>

\* one iteration of parseMarkdown's loop: parseLine, push, advance
ParseLineStep ==
  /\ pc = "scan"
  /\ i <= Len(lines)
  /\ Len(steps) < MaxSteps
  /\ IF i \notin 1..Len(lines)
       THEN /\ pc' = "threw"
            /\ UNCHANGED <<i, nodes, steps>>
       ELSE \E r \in {IF rev = "new" THEN parseLine(lines, i)
                                     ELSE parseLineOld(lines, i)} :
              /\ nodes' = IF r.node # Null THEN Append(nodes, r.node) ELSE nodes
              /\ i' = r.nextIndex
              /\ steps' = Append(steps, [index |-> i, nextIndex |-> r.nextIndex,
                                         node |-> r.node])
              /\ pc' = "scan"
  /\ UNCHANGED <<rev, text, lines, inlineVars>>

\* the loop condition fails: parseMarkdown returns nodes
ParseMarkdownReturn ==
  /\ pc = "scan"
  /\ i > Len(lines)
  /\ pc' = "done"
  /\ UNCHANGED <<rev, text, blockVars, inlineVars>>

\* parseInline up to the loop
ParseInlineEnter ==
  /\ pc = "call"
  /\ IF text = <<>>
       THEN /\ children' = <<TextNode(<<>>)>>
            /\ pc' = "returned"
            /\ UNCHANGED <<remaining, tokens>>
       ELSE /\ remaining' = text
            /\ tokens' = <<>>
            /\ pc' = "loop"
            /\ UNCHANGED children
  /\ UNCHANGED <<rev, text, blockVars, prevLen>>

\* one iteration of  while (remaining.length > 0)
ParseInlineIterate ==
  /\ pc = "loop"
  /\ Len(remaining) > 0
  /\ \E it \in {InlineIteration(rev, remaining)} :
       /\ tokens' = Append(tokens, it.token)
       /\ remaining' = Drop(remaining, it.len)
  /\ prevLen' = Len(remaining)
  /\ UNCHANGED <<rev, text, blockVars, children, pc>>

\* the loop ends: merge adjacent text tokens and return; the merged nodes
\* are the token objects, so the first token of each run of text grows
ParseInlineReturn ==
  /\ pc = "loop"
  /\ Len(remaining) = 0
  /\ children' = MergeText(rev, tokens)
  /\ tokens' = MergeAliased(tokens, 1, 0)
  /\ pc' = "returned"
  /\ UNCHANGED <<rev, text, blockVars, remaining, prevLen>>

Next ==
  \/ ParseMarkdownEnter
  \/ ParseLineStep
  \/ ParseMarkdownReturn

NextInline ==
  \/ ParseInlineEnter
  \/ ParseInlineIterate
  \/ ParseInlineReturn

Spec == Init /\ [][Next]_vars

SpecRevisions == InitRevisions /\ [][Next]_vars

SpecInline == InitInline /\ [][NextInline]_vars

(***************************************************************************)
(* Properties of the inline tokenizer (SpecInline).                        *)
(***************************************************************************)
\* the part of text the loop has consumed so far
Consumed == Take(text, Len(text) - Len(remaining))

\* C2: the inline tokenizer terminates: every iteration of the loop of
\* parseInline, rule match or plain-text fallback, leaves remaining strictly
\* shorter than it found it, the number of iterations never exceeds the
\* length of the input, and the loop ends with remaining empty.
C2_InlineTerminates ==
  /\ pc \in {"loop", "returned"} /\ tokens # <<>> => Len(remaining) < prevLen
  /\ Len(tokens) + Len(remaining) <= Len(text)
  /\ pc = "returned" => remaining = <<>>
  /\ pc = "loop" => remaining = Drop(text, Len(text) - Len(remaining))

\* C2 witness: a run that ended after a rule matched and the one-character
\* fallback ran
C2_Witness ==
  /\ pc = "returned"
  /\ Len(tokens) >= 2
  /\ \E k \in 1..Len(tokens) : tokens[k].type # "text"
  /\ \E k \in 1..Len(tokens) :
       /\ tokens[k].type = "text"
       /\ tokens[k].content \in {<<c>> : c \in Specials}

\* the source substrings a token can stand for: its content with the
\* delimiters of its rule put back
Renderings(tok) ==
  CASE tok.type = "text"   -> {tok.content}
    [] tok.type = "code"   -> {<<Backtick>> \o tok.content \o <<Backtick>>}
    [] tok.type = "bold"   -> {<<"*", "*">> \o tok.content \o <<"*", "*">>,
                               <<"_", "_">> \o tok.content \o <<"_", "_">>}
    [] tok.type = "italic" -> {<<"*">> \o tok.content \o <<"*">>,
                               <<"_">> \o tok.content \o <<"_">>}
    [] tok.type = "strike" -> {<<"~", "~">> \o tok.content \o <<"~", "~">>}
    [] tok.type = "link"   -> {<<"[">> \o tok.text \o <<"]", "(">> \o tok.href
                                 \o <<")">>}
    [] tok.type = "image"  -> {<<"!", "[">> \o tok.alt \o <<"]", "(">> \o tok.src
                                 \o <<")">>}

\* toks, in order, stand for contiguous substrings of s that make up s
RECURSIVE Covers(_, _)
Covers(toks, s) ==
  IF toks = <<>> THEN s = <<>>
  ELSE \E r \in Renderings(Head(toks)) :
         StartsWith(s, r) /\ Covers(Tail(toks), Drop(s, Len(r)))

\* C3: inline coverage: the tokens of parseInline stand, in order, for
\* contiguous substrings of the input that concatenate to exactly the input;
\* a text token holds its substring verbatim, a markup token its substring
\* without the delimiters of its rule.  It holds of the tokens pushed so far
\* and the consumed prefix, and of the returned children and the input.
C3_InlineCoverage ==
  /\ pc = "loop" => Covers(tokens, Consumed)
  /\ pc = "returned" => Covers(children, text)

\* C3 witness: a returned sequence with a link, an image or bold among text
C3_Witness ==
  /\ pc = "returned"
  /\ Len(children) >= 2
  /\ \E k \in 1..Len(children) : children[k].type \in {"link", "image", "bold"}
  /\ \E k \in 1..Len(children) : children[k].type = "text"

\* a token sequence with each text token spelled out character by character
RECURSIVE Spelled(_)
Spelled(toks) ==
  IF toks = <<>> THEN <<>>
  ELSE IF Head(toks).type = "text"
    THEN [k \in 1..Len(Head(toks).content) |->
            [type |-> "char", content |-> <<Head(toks).content[k]>>]]
         \o Spelled(Tail(toks))
    ELSE <<Head(toks)>> \o Spelled(Tail(toks))

NoAdjacentText(seq) ==
  \A k \in 1..(Len(seq) - 1) :
    ~(seq[k].type = "text" /\ seq[k + 1].type = "text")

\* C4: no two consecutive nodes of a sequence returned by parseInline are
\* both text, and the merge step turns each run of text tokens into one text
\* node whose content is the concatenation of the run and keeps the other
\* tokens as they are (the tokens as they stand when the loop ends).
C4_NoAdjacentText ==
  /\ [](pc = "returned" => NoAdjacentText(children))
  /\ [][(pc = "loop" /\ pc' = "returned")
          => Spelled(children') = Spelled(tokens)]_vars

\* C4 witness: a return where text tokens were merged into a longer text
\* node, one of them a one-character fallback fragment
C4_Witness ==
  /\ pc = "returned"
  /\ Len(children) >= 2
  /\ Len(tokens) > Len(children)
  /\ \E k \in 1..(Len(tokens) - 1) :
       /\ tokens[k].type = "text" /\ tokens[k + 1].type = "text"
       /\ tokens[k + 1].content \in {<<"*">>, <<"_">>, <<"[">>}
  /\ \E j \in 1..Len(children) :
       children[j].type = "text" /\ Len(children[j].content) >= 2

(***************************************************************************)
(* Properties of the block scanner (Spec, SpecRevisions).                  *)
(***************************************************************************)
StepIds == 1..Len(steps)

TrimmedLine(k) == Trim(lines[k])

IsBlankLine(k) == TrimmedLine(k) = <<>>

IsOrderedLine(k) == MatchOrdered(TrimmedLine(k)).matched

IsUnorderedLine(k) == MatchUnordered(TrimmedLine(k)).matched

IsItemLine(k) == IsOrderedLine(k) \/ IsUnorderedLine(k)

IsFenceLine(k) == TestCodeBlockStart(TrimmedLine(k))

BlockTypes == {"heading", "paragraph", "hr", "codeblock", "blockquote", "list"}

RECURSIVE ReturnedNodes(_)
ReturnedNodes(sts) ==
  IF sts = <<>> THEN <<>>
  ELSE IF Head(sts).node = Null THEN ReturnedNodes(Tail(sts))
  ELSE <<Head(sts).node>> \o ReturnedNodes(Tail(sts))

\* some action of Next can be taken (the guards of its three actions)
CanStep ==
  \/ pc = "start"
  \/ pc = "scan" /\ i <= Len(lines) /\ Len(steps) < MaxSteps
  \/ pc = "scan" /\ i > Len(lines)

\* C1: totality of parseMarkdown (the new revision): no TypeError is raised;
\* the scan is never stuck before it returns, and it has advanced by at
\* least one line per parseLine call, so it returns; what it returns is the
\* ordered sequence of the block nodes parseLine produced, each of a known
\* block type; for the empty text the sequence is empty.
C1_Totality ==
  /\ pc # "threw"
  /\ pc = "done" \/ CanStep
  /\ pc = "scan" => Len(steps) < i
  /\ pc = "done" =>
       /\ nodes = ReturnedNodes(steps)
       /\ \A k \in 1..Len(nodes) : nodes[k].type \in BlockTypes
       /\ text = <<>> => nodes = <<>>

\* C1 witness: parseMarkdown returned on a text with an unterminated fence
\* and, before it, a paragraph holding an unpaired delimiter
C1_Witness ==
  /\ pc = "done"
  /\ \E k \in StepIds :
       /\ steps[k].node.type = "codeblock"
       /\ steps[k].nextIndex = Len(lines) + 2
  /\ \E k \in StepIds :
       /\ steps[k].node.type = "paragraph"
       /\ steps[k].node.children = <<TextNode(<<"*", "a">>)>>

\* every children sequence held by a block node
ChildrenIn(node) ==
  CASE node.type \in {"heading", "paragraph", "blockquote"} -> {node.children}
    [] node.type = "list" ->
         {node.items[k].children : k \in 1..Len(node.items)}
         \cup UNION {IF node.items[k].nestedList = Null THEN {}
                     ELSE {node.items[k].nestedList.items[j].children :
                             j \in 1..Len(node.items[k].nestedList.items)} :
                     k \in 1..Len(node.items)}
    [] OTHER -> {}

\* C5: every children sequence of a produced tree holds at least one node;
\* parseInline of the empty string is the single node text(""), and so a
\* blockquote made of a lone ">" line (an empty body) has that single child.
C5_ChildrenNonEmpty ==
  /\ parseInline(rev, <<>>) = <<TextNode(<<>>)>>
  /\ \A k \in StepIds :
       /\ \A c \in ChildrenIn(steps[k].node) : Len(c) >= 1
       /\ ( /\ steps[k].node.type = "blockquote"
            /\ steps[k].nextIndex = steps[k].index + 1
            /\ TrimmedLine(steps[k].index) = <<">">> )
          => steps[k].node.children = <<TextNode(<<>>)>>

\* C5 witness: a tree with a blockquote of empty body and a list
C5_Witness ==
  /\ pc = "done"
  /\ \E k \in 1..Len(nodes) :
       nodes[k].type = "blockquote" /\ nodes[k].children = <<TextNode(<<>>)>>
  /\ \E k \in 1..Len(nodes) : nodes[k].type = "list"

SameMarkerType(j, k) ==
  \/ IsOrderedLine(j) /\ IsOrderedLine(k)
  \/ IsUnorderedLine(j) /\ IsUnorderedLine(k)

\* the lines a step consumed
LinesOf(st) == {k \in 1..Len(lines) : st.index <= k /\ k < st.nextIndex}

\* line k is an item line consumed by the list block of step n and is
\* followed by a blank line
ItemThenBlank(n, k) ==
  /\ steps[n].node.type = "list"
  /\ k \in LinesOf(steps[n])
  /\ IsItemLine(k)
  /\ k + 1 <= Len(lines)
  /\ IsBlankLine(k + 1)

\* a list block starts at line k in a step after step n
ListStartsAt(n, k) ==
  \E m \in StepIds : /\ m > n
                      /\ steps[m].index = k
                      /\ steps[m].node.type = "list"

\* one blank line between two items of the same marker type: the block of
\* the first also consumes the second
ContinuesOver(n, k) ==
  (k + 2 <= Len(lines) /\ SameMarkerType(k, k + 2))
    => steps[n].nextIndex > k + 2

\* a blank line followed by a second blank line, a non-list line or the end
\* of the text: the block ends at the blank line
EndsAtBlank(n, k) ==
  (k + 2 > Len(lines) \/ ~IsItemLine(k + 2))
    => steps[n].nextIndex = k + 1

\* C6 as stated: two item lines of the same marker type separated by one
\* blank line are in the same list block; separated by two blank lines, or
\* by a blank line followed by a non-list line, the first list block ends at
\* that blank line and the later item starts a separate list block.
C6_AsStated ==
  \A n \in StepIds : \A k \in 1..Len(lines) : ItemThenBlank(n, k) =>
    /\ ContinuesOver(n, k)
    /\ EndsAtBlank(n, k)
    /\ ( /\ pc = "done"
         /\ k + 3 <= Len(lines)
         /\ ~IsItemLine(k + 2)
         /\ SameMarkerType(k, k + 3) )
         => ListStartsAt(n, k + 3)

\* C6 amended: list continuation.  For an item line k consumed by a list
\* block: followed by one blank line and an item line of the same marker
\* type, the block also consumes that item; followed by a blank line and
\* then a second blank line, a non-list line or the end of the text, the
\* block ends at the blank line; an item line k+3 then starts a list block
\* of its own, unless line k+2 opens a code block: then the code block
\* consumes line k+3 as content and no block starts there.
C6_ListContinuation ==
  \A n \in StepIds : \A k \in 1..Len(lines) : ItemThenBlank(n, k) =>
    /\ ContinuesOver(n, k)
    /\ EndsAtBlank(n, k)
    /\ ( /\ pc = "done"
         /\ k + 3 <= Len(lines)
         /\ ~IsItemLine(k + 2)
         /\ IsItemLine(k + 3) )
         => IF IsFenceLine(k + 2)
              THEN /\ \E m \in StepIds :
                        /\ m > n
                        /\ steps[m].index = k + 2
                        /\ steps[m].node.type = "codeblock"
                        /\ steps[m].nextIndex > k + 3
                        /\ StartsWith(steps[m].node.content, lines[k + 3])
                   /\ \A m \in StepIds : steps[m].index # k + 3
              ELSE ListStartsAt(n, k + 3)

\* C6 witness: item, blank line, item, blank line, rule, item: the first
\* list holds the two items across the single blank line and ends at the
\* second blank line, and the item after the rule starts a second list
C6_Witness ==
  /\ pc = "done"
  /\ Len(lines) = 6
  /\ IsUnorderedLine(1) /\ IsBlankLine(2) /\ IsUnorderedLine(3) /\ IsBlankLine(4)
  /\ TestHr(TrimmedLine(5))
  /\ IsUnorderedLine(6)
  /\ Len(nodes) = 3
  /\ nodes[1].type = "list" /\ Len(nodes[1].items) = 2
  /\ steps[1].nextIndex = 4
  /\ nodes[2].type = "hr"
  /\ nodes[3].type = "list" /\ Len(nodes[3].items) = 1

\* the first fence line after line k, Len(lines) + 1 if there is none
ClosingFence(k) ==
  IF \E c \in (k + 1)..Len(lines) : IsFenceLine(c)
    THEN CHOOSE c \in (k + 1)..Len(lines) :
           IsFenceLine(c) /\ \A d \in (k + 1)..(c - 1) : ~IsFenceLine(d)
    ELSE Len(lines) + 1

\* C7: code-block content is verbatim.  For a code block opened at line k
\* and c the first later fence line (one past the last line if none), the
\* content is the raw lines k+1..c-1 joined by "\n", line c is consumed and
\* excluded, and the scan resumes at c+1.
C7_CodeBlockVerbatim ==
  \A n \in StepIds : steps[n].node.type = "codeblock" =>
    LET k == steps[n].index
        c == ClosingFence(k)
    IN  /\ IsFenceLine(k)
        /\ steps[n].node.content = Join(SubSeq(lines, k + 1, c - 1))
        /\ steps[n].nextIndex = c + 1
        /\ IF n < Len(steps) THEN steps[n + 1].index = c + 1
                             ELSE i = c + 1

\* C7 witness: a closed code block whose content is a line with leading and
\* trailing white space and a markdown-special character
C7_Witness ==
  /\ pc = "done"
  /\ \E n \in StepIds :
       /\ steps[n].node.type = "codeblock"
       /\ steps[n].node.content = <<"U+FEFF", "*", "a", "\f">>
       /\ steps[n].nextIndex <= Len(lines) + 1

\* the items read off the non-blank lines first..last of a list block: a
\* line of the main marker opens an item, a line of the other marker joins
\* the nested list of the item before it
RECURSIVE ItemsOfLines(_, _, _, _)
ItemsOfLines(k, last, isOrdered, items) ==
  IF k > last THEN items
  ELSE IF MatchPattern(MainPatternOf(isOrdered), TrimmedLine(k)).matched
    THEN ItemsOfLines(k + 1, last, isOrdered,
           Append(items,
             [type |-> "listitem",
              children |-> parseInline("new",
                 MatchPattern(MainPatternOf(isOrdered), TrimmedLine(k)).g2),
              nestedList |-> Null]))
  ELSE IF MatchPattern(NestedPatternOf(isOrdered), TrimmedLine(k)).matched
    THEN ItemsOfLines(k + 1, last, isOrdered,
           [items EXCEPT ![Len(items)].nestedList =
              [type |-> "list", ordered |-> ~isOrdered,
               items |-> (IF @ = Null THEN <<>> ELSE @.items)
                   \o <<[type |-> "listitem",
                         children |-> parseInline("new",
                            MatchPattern(NestedPatternOf(isOrdered),
                                         TrimmedLine(k)).g2)]>>]])
  ELSE ItemsOfLines(k + 1, last, isOrdered, items)

\* C8: structure of the list parseList returns: ordered is true iff its
\* first line matches the ordered pattern; it has at least one item; the
\* run of opposite-marker lines after a top-level item is that item's one
\* nestedList, whose ordered flag is the negation of the parent's and which
\* has at least one item; the items of a nested list carry no nested list.
C8_NestedListStructure ==
  \A n \in StepIds : steps[n].node.type = "list" =>
    LET node == steps[n].node
    IN  /\ node.ordered = IsOrderedLine(steps[n].index)
        /\ Len(node.items) >= 1
        /\ node.items = ItemsOfLines(steps[n].index, steps[n].nextIndex - 1,
                                     node.ordered, <<>>)
        /\ \A k \in 1..Len(node.items) :
             \/ node.items[k].nestedList = Null
             \/ /\ node.items[k].nestedList.type = "list"
                /\ node.items[k].nestedList.ordered = ~node.ordered
                /\ Len(node.items[k].nestedList.items) >= 1
                /\ \A j \in 1..Len(node.items[k].nestedList.items) :
                     DOMAIN node.items[k].nestedList.items[j]
                       = {"type", "children"}

\* C8 witness: an unordered list whose first item carries a nested ordered
\* list of two items and is followed by a second top-level item
C8_Witness ==
  /\ pc = "done"
  /\ Len(nodes) = 1
  /\ nodes[1].type = "list" /\ ~nodes[1].ordered
  /\ Len(nodes[1].items) = 2
  /\ nodes[1].items[1].nestedList # Null
  /\ Len(nodes[1].items[1].nestedList.items) = 2
  /\ nodes[1].items[2].nestedList = Null

\* the trimmed line matches none of the block rules
MatchesNoRule(line) ==
  /\ ~TestCodeBlockStart(line)
  /\ ~MatchHeading(line).matched
  /\ ~TestHr(line)
  /\ ~StartsWith(line, <<">">>)
  /\ ~MatchOrdered(line).matched
  /\ ~MatchUnordered(line).matched

\* C9 as stated: a line that is non-empty before trimming and matches no
\* block rule, a line of only white space included, becomes a paragraph;
\* only zero-length lines are skipped without a node.
C9_AsStated ==
  \A n \in StepIds :
    /\ (lines[steps[n].index] # <<>> /\ MatchesNoRule(TrimmedLine(steps[n].index)))
         => steps[n].node.type = "paragraph"
    /\ steps[n].node = Null => lines[steps[n].index] = <<>>

\* C9 amended: a line is skipped without a node exactly when its trimmed
\* form is empty (zero-length or white space only); a line whose trimmed
\* form is non-empty and matches no block rule becomes a paragraph of that
\* one line, its children the inline parse of the trimmed line.
C9_BlankLinePolicy ==
  \A n \in StepIds :
    LET k == steps[n].index
    IN  /\ steps[n].node = Null <=> IsBlankLine(k)
        /\ IsBlankLine(k) => steps[n].nextIndex = k + 1
        /\ (~IsBlankLine(k) /\ MatchesNoRule(TrimmedLine(k))) =>
             /\ steps[n].node =
                  [type |-> "paragraph",
                   children |-> parseInline("new", TrimmedLine(k))]
             /\ steps[n].nextIndex = k + 1

\* C9 witness: a white-space-only line (a space and U+00A0) was skipped
\* and a paragraph produced from a line trimmed of U+FEFF and U+000C
C9_Witness ==
  /\ pc = "done"
  /\ \E n \in StepIds :
       lines[steps[n].index] = <<" ", "U+00A0">> /\ steps[n].node = Null
  /\ \E n \in StepIds :
       /\ lines[steps[n].index] = <<"U+FEFF", "*", "a", "\f">>
       /\ steps[n].node.type = "paragraph"
       /\ steps[n].node.children = <<TextNode(<<"*", "a">>)>>

\* C10: progress of the block scanner in both revisions: every parseLine
\* call returns nextIndex > index, so the loop of parseMarkdown takes at
\* most one step per line.
C10_Progress ==
  /\ \A n \in StepIds : steps[n].nextIndex > steps[n].index
  /\ Len(steps) <= Len(lines)

=============================================================================
